---- MODULE Spec2Model ----
(***************************************************************************)
(* Point-wise raster extraction of lib/ExtractLib.py: the tile resolver    *)
(* (clip_and_join), the tiled and untiled extraction drivers and the       *)
(* year-series orchestrator, together with the year-token substitution     *)
(* the tiled driver applies to tile paths and to the output column name.   *)
(* The tile download run of lib/download_gee_tiles.py: the retrieval of    *)
(* the service-account key (local, or fetched from S3 into a temporary     *)
(* file), the per-tile download with its partial-file cleanup, and main's  *)
(* loop over the requested tiles with its final cleanup.                   *)
(*                                                                         *)
(* Strings are sequences of one-character strings, so that str.replace is  *)
(* computed character by character.  A coordinate is a ground location x   *)
(* together with the coordinate reference system (crs) it is expressed in; *)
(* a table carries one crs for all of its rows, as a GeoDataFrame does.    *)
(***************************************************************************)
EXTENDS Naturals, Sequences, FiniteSets, TLC

VARIABLES
    pc,                 \* position of the running call
    call,               \* the arguments of the call being made
    input_points_gdf,   \* the caller's point table P
    footprint_gdf,      \* the tile footprint index F
    resolved,           \* the caller's own clip_and_join result, or NoTable
    joined_points_gdf,  \* the orchestrator's local of that name, or NoTable (unbound)
    gdf,                \* the table the running driver iterates over
    pos,                \* number of rows the driver's loop has consumed
    col_name,           \* ExtractTiledRaster's col_name
    acc,                \* new_gdf_list (s3) or value_list (local)
    cur,                \* the row frame and tile path between open and sample
    result,             \* the returned table, or NoTable
    err,                \* the exception that left the call, or NoErr
    handles,            \* raster handles and read sessions currently open
    hist,               \* per row position: what the loop did for that row
    template,           \* substitution chain: the original string
    str_cur,            \* substitution chain: the current string
    years_applied,      \* substitution chain: the years substituted so far
    token_kind,         \* substitution chain: "path" or "name"
    main_pc,            \* download run: position of main
    gee_key_path,       \* download run: args.gee_key_path
    key_files,          \* download run: key files present on the local disk
    local_key_path,     \* download run: main's local_key_path, NoPath for None
    is_temporary,       \* download run: main's is_temporary
    s3_result,          \* download run: what download_key_from_s3 returned
    key_error,          \* download run: the exception download_key_from_s3 caught
    tile_list,          \* download run: args.tile_list parsed, <<>> when not given
    tiles_index,        \* download run: tile_num column of the loaded index
    tile_numbers,       \* download run: main's tile_numbers
    tile_i,             \* download run: tiles the loop has finished
    successful,         \* download run: main's successful
    failed,             \* download run: main's failed
    files,              \* download run: files present in the output directory
    called,             \* download run: focal_tile of every process_tile call
    returned,           \* download run: one record per process_tile return
    exit_status         \* download run: how main ended

vars == <<pc, call, input_points_gdf, footprint_gdf, resolved, joined_points_gdf,
          gdf, pos, col_name, acc, cur, result, err, handles, hist,
          template, str_cur, years_applied, token_kind,
          main_pc, gee_key_path, key_files, local_key_path, is_temporary,
          s3_result, key_error, tile_list, tiles_index, tile_numbers, tile_i,
          successful, failed, files, called, returned, exit_status>>

extractVars == <<pc, call, input_points_gdf, footprint_gdf, resolved,
                 joined_points_gdf, gdf, pos, col_name, acc, cur, result, err,
                 handles, hist>>

substVars == <<template, str_cur, years_applied, token_kind>>

downloadVars == <<main_pc, gee_key_path, key_files, local_key_path, is_temporary,
                  s3_result, key_error, tile_list, tiles_index, tile_numbers,
                  tile_i, successful, failed, files, called, returned,
                  exit_status>>

(***************************************************************************)
(* Bounds of the model.                                                    *)
(***************************************************************************)
MaxPoints == 2
MaxChunks == 2
MaxSubst == 2

(***************************************************************************)
(* Strings.                                                                *)
(***************************************************************************)
Digit(d) ==
    CASE d = 0 -> "0" [] d = 1 -> "1" [] d = 2 -> "2" [] d = 3 -> "3"
      [] d = 4 -> "4" [] d = 5 -> "5" [] d = 6 -> "6" [] d = 7 -> "7"
      [] d = 8 -> "8" [] OTHER -> "9"

RECURSIVE str(_)
str(n) ==
    IF n < 10 THEN <<Digit(n)>> ELSE str(n \div 10) \o <<Digit(n % 10)>>

StartsWith(s, prefix) ==
    Len(s) >= Len(prefix) /\ SubSeq(s, 1, Len(prefix)) = prefix

\* str.replace limited to the first occurrence (count=1)
replaceFirst(s, old, new) ==
    IF \E i \in 1..Len(s) : StartsWith(SubSeq(s, i, Len(s)), old)
    THEN LET i == CHOOSE k \in 1..Len(s) :
                      /\ StartsWith(SubSeq(s, k, Len(s)), old)
                      /\ \A j \in 1..(k - 1) : ~StartsWith(SubSeq(s, j, Len(s)), old)
         IN SubSeq(s, 1, i - 1) \o new \o SubSeq(s, i + Len(old), Len(s))
    ELSE s

\* Python's str.replace(old, new) for a non-empty old: every non-overlapping
\* occurrence, scanning from the left.
RECURSIVE replace(_, _, _)
replace(s, old, new) ==
    IF s = <<>> THEN <<>>
    ELSE IF StartsWith(s, old)
         THEN new \o replace(SubSeq(s, Len(old) + 1, Len(s)), old, new)
         ELSE <<Head(s)>> \o replace(Tail(s), old, new)

Contains(s, sub) ==
    \E i \in 1..Len(s) : StartsWith(SubSeq(s, i, Len(s)), sub)

TokenYear == 2020

\* ras_fn.replace('y2020', 'y'+str(tcc_year))
SubstPath(ras_fn, tcc_year) ==
    replace(ras_fn, <<"y">> \o str(TokenYear), <<"y">> \o str(tcc_year))

\* ras_dict['data_name'].replace('tcc2020', 'tcc'+str(tcc_year))
SubstName(data_name, tcc_year) ==
    replace(data_name, <<"t", "c", "c">> \o str(TokenYear),
            <<"t", "c", "c">> \o str(tcc_year))

Subst(kind, s, tcc_year) ==
    IF kind = "path" THEN SubstPath(s, tcc_year) ELSE SubstName(s, tcc_year)

(***************************************************************************)
(* Tables.  A table is [crs, refcols, cols, rows]: refcols are the tile    *)
(* reference columns it carries ("location", "s3_path"), cols the value    *)
(* columns.  A row is [index, id, x, location, s3_path, vals]: index is    *)
(* the pandas index label, id the label the row had in the caller's point  *)
(* table (kept as a column by reset_index), x the ground location, vals    *)
(* the row's value cells by column name.                                   *)
(***************************************************************************)
NaN == <<"NaN">>

\* a check that takes every reference for a path
IsStrUnchecked(v) == TRUE

\* isinstance(v, str), and for a joined column not (type(v) is float)
IsStr(v) == v # NaN

NaNCell == [nan |-> TRUE, file |-> <<>>, x |-> 0, in_frame |-> TRUE, listed |-> FALSE]

NoTable == [crs |-> "none", refcols |-> {}, cols |-> {}, rows |-> <<>>]

NoErr == "none"

NoFrame == [crs |-> "none", ras_fn |-> <<>>,
            row |-> [index |-> 0, id |-> 0, x |-> 0, location |-> NaN,
                     s3_path |-> NaN, vals |-> <<>>]]

\* The tiles of the store: each covers a closed stretch of ground (a set of
\* locations, its two end points being its boundary), and A and B share the
\* boundary location 2.
TileA == [name |-> "A", geom |-> 0..2, location |-> <<"A">>,
          s3_path |-> <<"A", "/", "y">> \o str(TokenYear)]

TileB == [name |-> "B", geom |-> 2..4, location |-> <<"B">>,
          s3_path |-> <<"B", "/", "y">> \o str(TokenYear)]

FootprintIndexes == {<<>>, <<TileA>>, <<TileA, TileB>>}

Interior(fp) == {x \in fp.geom : (x - 1) \in fp.geom /\ (x + 1) \in fp.geom}

\* 1 is interior to A, 2 on the boundary A and B share, 3 interior to B,
\* 5 outside every footprint.
Locations == {1, 2, 3, 5}

PointCrs == "EPSG:4326"

FootprintCrss == {"EPSG:4326", "EPSG:3857"}

RefColumnSets == {{"location"}, {"s3_path"}, {"location", "s3_path"}}

Years == {2019, 2020}

\* tcc_year=None is <<>>, tcc_year=y is <<y>>
YearArgs == {<<>>} \cup {<<y>> : y \in Years}

DataNames == {<<"t", "c", "c">> \o str(TokenYear), <<"s", "l">>}

StorageClasses == {"local", "s3", "gcs"}

RasterDicts == [location : StorageClasses, data_name : DataNames]

NoDict == [location |-> "none", data_name |-> <<>>]

\* The raster at a path: tile rasters are in their own projected systems,
\* the single global raster in a geographic one.
RasterCrs(ras_fn) ==
    IF \E i \in 1..Len(ras_fn) : ras_fn[i] = "A" THEN "UTM:A"
    ELSE IF \E i \in 1..Len(ras_fn) : ras_fn[i] = "B" THEN "UTM:B"
    ELSE "EPSG:4326"

\* The pixel of raster ras_fn under coordinates (x, crs): the pixel at
\* ground location x when the coordinates are in the raster's system.
Pixel(ras_fn, x, crs) ==
    [nan |-> FALSE, file |-> ras_fn, x |-> x, in_frame |-> (crs = RasterCrs(ras_fn)),
     listed |-> FALSE]

\* os.path.join(data_dir, name)
DataDir == <<"d">>

path_join(dir, name) ==
    IF name # <<>> /\ Head(name) = "/" THEN name ELSE dir \o <<"/">> \o name

GlobalFileName == <<"w", "c">>

\* GeoDataFrame.to_crs: the same ground locations, expressed in crs
to_crs(t, crs) == [t EXCEPT !.crs = crs]

\* reproject_gdf_to_rio_ds(gdf, rio_ds)
reproject_gdf_to_rio_ds(t, ras_crs) == to_crs(t, ras_crs)

\* DataFrame.reset_index(): labels become positions 0..n-1
reset_indexSkipped(t) == t

reset_index(t) ==
    [t EXCEPT !.rows = [i \in 1..Len(t.rows) |-> [t.rows[i] EXCEPT !.index = i - 1]]]

RECURSIVE Flatten(_)
Flatten(ss) == IF ss = <<>> THEN <<>> ELSE Head(ss) \o Flatten(Tail(ss))

\* gpd.clip(ras_gdf, gdf, keep_geom_type=True): the footprints that meet the
\* point set, each cut down to the points it meets
clip(ras_gdf, points) ==
    LET xs == {points.rows[i].x : i \in 1..Len(points.rows)}
        cut == [i \in 1..Len(ras_gdf.rows) |->
                   [ras_gdf.rows[i] EXCEPT !.geom = @ \cap xs]]
    IN [ras_gdf EXCEPT !.rows = SelectSeq(cut, LAMBDA fp : fp.geom # {})]

\* gpd.sjoin(gdf, overlaps, how="left"), predicate "intersects": one output
\* row per (point, footprint met), or one row with null references for a
\* point that meets none; the left index labels are kept.
JoinedAs(r, fp, refcols) ==
    [r EXCEPT !.location = IF "location" \in refcols THEN fp.location ELSE NaN,
              !.s3_path = IF "s3_path" \in refcols THEN fp.s3_path ELSE NaN]

sjoin(points, overlaps) ==
    LET matches(r) == SelectSeq(overlaps.rows, LAMBDA fp : r.x \in fp.geom)
        out(r) == IF matches(r) = <<>> THEN <<r>>
                  ELSE [k \in 1..Len(matches(r)) |->
                           JoinedAs(r, matches(r)[k], overlaps.refcols)]
    IN [points EXCEPT !.refcols = overlaps.refcols,
                      !.rows = Flatten([i \in 1..Len(points.rows) |-> out(points.rows[i])])]

\* clip_and_join(gdf, ras_gdf), the table of the returned pair
clip_and_join(points, ras_gdf) == sjoin(points, clip(ras_gdf, points))

\* DataFrame.iloc[[idx]]: the row at 0-based position idx
ilocInRange(t, idx) == idx < Len(t.rows)

iloc(t, idx) == t.rows[idx + 1]

\* pd.concat(new_gdf_list): the rows in list order over the union of the
\* frames' columns, cells a frame lacks filled with NaN
concat(frames) ==
    LET allcols == UNION {DOMAIN frames[i].row.vals : i \in 1..Len(frames)}
        fill(r) == [r EXCEPT !.vals = [c \in allcols |->
                        IF c \in DOMAIN r.vals THEN r.vals[c] ELSE NaNCell]]
    IN [crs |-> frames[1].crs, refcols |-> {}, cols |-> allcols,
        rows |-> [i \in 1..Len(frames) |-> fill(frames[i].row)]]

SameCrs(frames) == \A i \in 1..Len(frames) : frames[i].crs = frames[1].crs

\* gdf[name] = values
with_column(t, name, values) ==
    [t EXCEPT !.cols = @ \cup {name},
              !.rows = [i \in 1..Len(t.rows) |->
                  [t.rows[i] EXCEPT !.vals =
                      [c \in (DOMAIN t.rows[i].vals) \cup {name} |->
                          IF c = name THEN values[i] ELSE t.rows[i].vals[c]]]]]

(***************************************************************************)
(* The state before any call: a caller's point table P with a RangeIndex   *)
(* and a footprint index F read from raster_dict['footprint_fn'].          *)
(***************************************************************************)
RECURSIVE SeqsUpTo(_, _)
SeqsUpTo(S, n) ==
    IF n = 0 THEN {<<>>}
    ELSE SeqsUpTo(S, n - 1) \cup
         {Append(q, e) : q \in {r \in SeqsUpTo(S, n - 1) : Len(r) = n - 1}, e \in S}

PointRow(i, x) ==
    [index |-> i - 1, id |-> i - 1, x |-> x, location |-> NaN, s3_path |-> NaN,
     vals |-> <<>>]

PointTable(xs) ==
    [crs |-> PointCrs, refcols |-> {}, cols |-> {},
     rows |-> [i \in 1..Len(xs) |-> PointRow(i, xs[i])]]

NoCall == [op |-> "none", has_joined |-> FALSE, tcc_year |-> <<>>, raster_dict |-> NoDict]

NoPath == <<>>

DownloadIdle ==
    /\ main_pc = "idle"
    /\ gee_key_path = NoPath
    /\ key_files = {}
    /\ local_key_path = NoPath
    /\ is_temporary = FALSE
    /\ s3_result = "uncalled"
    /\ key_error = "none"
    /\ tile_list = <<>>
    /\ tiles_index = <<>>
    /\ tile_numbers = <<>>
    /\ tile_i = 0
    /\ successful = 0
    /\ failed = 0
    /\ files = {}
    /\ called = <<>>
    /\ returned = <<>>
    /\ exit_status = "none"

SubstIdle ==
    /\ template = <<>>
    /\ str_cur = <<>>
    /\ years_applied = <<>>
    /\ token_kind = "none"

ExtractInit ==
    /\ pc = "idle"
    /\ call = NoCall
    /\ input_points_gdf \in {PointTable(xs) : xs \in SeqsUpTo(Locations, MaxPoints)}
    /\ footprint_gdf \in [crs : FootprintCrss, refcols : RefColumnSets, cols : {{}},
                          rows : FootprintIndexes]
    /\ resolved = NoTable
    /\ joined_points_gdf = NoTable
    /\ gdf = NoTable
    /\ pos = 0
    /\ col_name = <<>>
    /\ acc = <<>>
    /\ cur = NoFrame
    /\ result = NoTable
    /\ err = NoErr
    /\ handles = 0
    /\ hist = <<>>

Init == ExtractInit /\ SubstIdle /\ DownloadIdle

Raise(e) ==
    /\ pc' = "raised"
    /\ err' = e
    /\ result' = NoTable

Return(t) ==
    /\ pc' = "returned"
    /\ err' = NoErr
    /\ result' = t

(***************************************************************************)
(* A caller resolving P against F itself, as the orchestrator does at      *)
(* line 207, to pass has_joined=True afterwards.                           *)
(***************************************************************************)
Resolve ==
    /\ pc = "idle"
    /\ resolved = NoTable
    /\ resolved' = clip_and_join(to_crs(input_points_gdf, footprint_gdf.crs), footprint_gdf)
    /\ UNCHANGED <<pc, call, input_points_gdf, footprint_gdf, joined_points_gdf, gdf,
                   pos, col_name, acc, cur, result, err, handles, hist>>
    /\ UNCHANGED <<substVars, downloadVars>>

(***************************************************************************)
(* ExtractTiledRaster(gdf, ras_dict, tcc_year): entry, up to the branch on *)
(* ras_dict['location'].                                                   *)
(***************************************************************************)
ExtractTiledRasterEnter(t, ras_dict) ==
    /\ gdf' = t
    /\ pos' = 0
    /\ acc' = <<>>
    /\ col_name' = ras_dict.data_name
    /\ IF ras_dict.location = "local"
       THEN pc' = "local_loop" /\ UNCHANGED <<result, err>>
       ELSE IF ras_dict.location = "s3"
            THEN pc' = "s3_loop" /\ UNCHANGED <<result, err>>
            ELSE Return(t)

(***************************************************************************)
(* run_extract_tiled_covar_year, up to its call of ExtractTiledRaster.     *)
(* The caller passes has_joined=True exactly when it holds a resolved      *)
(* table, and then passes that table.                                      *)
(***************************************************************************)
OrchestratorBody(raster_dict, tcc_year, has_joined) ==
    LET footprint == footprint_gdf
        joined == clip_and_join(to_crs(input_points_gdf, footprint.crs), footprint)
    IN IF tcc_year = <<>> /\ raster_dict = NoDict
       THEN \* line 194: raster_dict['data_name'] on None
            Raise("TypeError")
              /\ UNCHANGED <<joined_points_gdf, gdf, pos, col_name, acc>>
       ELSE IF raster_dict = NoDict
       THEN \* lines 197-199: return None
            Return(NoTable)
              /\ UNCHANGED <<joined_points_gdf, gdf, pos, col_name, acc>>
       ELSE IF has_joined
       THEN \* lines 202-203 bind nothing; line 214 reads joined_points_gdf
            Raise("UnboundLocalError")
              /\ UNCHANGED <<joined_points_gdf, gdf, pos, col_name, acc>>
       ELSE IF "s3_path" \notin joined.refcols
       THEN \* line 209: joined_points_gdf['s3_path']
            Raise("KeyError")
              /\ joined_points_gdf' = joined
              /\ UNCHANGED <<gdf, pos, col_name, acc>>
       ELSE /\ joined_points_gdf' = joined
            /\ ExtractTiledRasterEnter(reset_index(joined), raster_dict)

run_extract_tiled_covar_year ==
    /\ pc = "idle"
    /\ \E raster_dict \in RasterDicts \cup {NoDict}, tcc_year \in YearArgs :
          LET has_joined == (resolved # NoTable)
          IN /\ call' = [op |-> "run_extract_tiled_covar_year", has_joined |-> has_joined,
                         tcc_year |-> tcc_year, raster_dict |-> raster_dict]
             /\ OrchestratorBody(raster_dict, tcc_year, has_joined)
    /\ UNCHANGED <<input_points_gdf, footprint_gdf, resolved, cur, handles, hist>>
    /\ UNCHANGED <<substVars, downloadVars>>

(***************************************************************************)
(* What the loop did for one row.                                          *)
(***************************************************************************)
Did(missing, reprojected, sampled, read_failed, col) ==
    [missing |-> missing, reprojected |-> reprojected, sampled |-> sampled,
     failed |-> read_failed, col |-> col]

SetCell(row, name, cell) ==
    [row EXCEPT !.vals = [c \in (DOMAIN row.vals) \cup {name} |->
                             IF c = name THEN cell ELSE row.vals[c]]]

HasYear == call.tcc_year # <<>>

\* lines 138-145: the effective tile path and column name for a resolved row
EffectivePath(point) ==
    IF HasYear THEN SubstPath(point.s3_path, call.tcc_year[1]) ELSE point.s3_path

EffectiveColName ==
    IF HasYear THEN SubstName(call.raster_dict.data_name, call.tcc_year[1]) ELSE col_name

\* do_s3_point_query, lines 33-43: the one-row frame in the raster's system
\* with the sampled value under raster_data_name
do_s3_point_query(s3_url, frame, raster_data_name) ==
    LET new_gdf == reproject_gdf_to_rio_ds(frame, RasterCrs(s3_url))
    IN [new_gdf EXCEPT !.row = SetCell(@, raster_data_name,
                                       Pixel(s3_url, new_gdf.row.x, new_gdf.crs))]

\* line 166: new_gdf.to_crs(gdf.crs), as the frame appended to new_gdf_list
BackToTableCrs(new_gdf) == [crs |-> to_crs(new_gdf, gdf.crs).crs, row |-> new_gdf.row]

(***************************************************************************)
(* ExtractTiledRaster, s3 branch (lines 128-168).                          *)
(***************************************************************************)
\* lines 137-153 up to rasterio.open inside do_s3_point_query (lines 25-30)
S3Open ==
    /\ pc = "s3_loop"
    /\ pos < Len(gdf.rows)
    /\ LET point == gdf.rows[pos + 1]
       IN /\ IsStr(point.s3_path)
          /\ col_name' = EffectiveColName
          /\ IF ~ilocInRange(gdf, point.index)
             THEN /\ Raise("IndexError")
                  /\ hist' = Append(hist, Did(FALSE, FALSE, FALSE, TRUE, <<>>))
                  /\ UNCHANGED <<cur, handles>>
             ELSE \E opens \in BOOLEAN :
                    IF opens
                    THEN /\ pc' = "s3_opened"
                         /\ handles' = handles + 2
                         /\ cur' = [crs |-> gdf.crs, ras_fn |-> EffectivePath(point),
                                    row |-> iloc(gdf, point.index)]
                         /\ UNCHANGED <<result, err, hist>>
                    ELSE /\ Raise("RasterioIOError")
                         /\ hist' = Append(hist, Did(FALSE, FALSE, FALSE, TRUE, <<>>))
                         /\ UNCHANGED <<cur, handles>>
    /\ UNCHANGED <<call, input_points_gdf, footprint_gdf, resolved, joined_points_gdf,
                   gdf, pos, acc>>
    /\ UNCHANGED <<substVars, downloadVars>>

\* lines 33-43, the two with blocks closing on the way out, then line 166
S3Sample ==
    /\ pc = "s3_opened"
    /\ handles' = handles - 2
    /\ cur' = NoFrame
    /\ \E samples \in BOOLEAN :
          IF samples
          THEN /\ acc' = Append(acc, BackToTableCrs(
                            do_s3_point_query(cur.ras_fn, cur, col_name)))
               /\ hist' = Append(hist, Did(FALSE, TRUE, TRUE, FALSE, col_name))
               /\ pos' = pos + 1
               /\ pc' = "s3_loop"
               /\ UNCHANGED <<result, err>>
          ELSE /\ Raise("RasterioIOError")
               /\ hist' = Append(hist, Did(FALSE, TRUE, FALSE, TRUE, <<>>))
               /\ UNCHANGED <<acc, pos>>
    /\ UNCHANGED <<call, input_points_gdf, footprint_gdf, resolved, joined_points_gdf,
                   gdf, col_name>>
    /\ UNCHANGED <<substVars, downloadVars>>

\* lines 157-166: a row whose s3_path is not a string
S3Missing ==
    /\ pc = "s3_loop"
    /\ pos < Len(gdf.rows)
    /\ LET point == gdf.rows[pos + 1]
       IN /\ ~IsStr(point.s3_path)
          /\ IF ~ilocInRange(gdf, point.index)
             THEN /\ Raise("IndexError")
                  /\ hist' = Append(hist, Did(TRUE, FALSE, FALSE, TRUE, <<>>))
                  /\ UNCHANGED <<acc, pos>>
             ELSE /\ acc' = Append(acc, BackToTableCrs(
                               [crs |-> gdf.crs,
                                row |-> SetCell(iloc(gdf, point.index), col_name, NaNCell)]))
                  /\ hist' = Append(hist, Did(TRUE, FALSE, FALSE, FALSE, col_name))
                  /\ pos' = pos + 1
                  /\ UNCHANGED <<pc, result, err>>
    /\ UNCHANGED <<call, input_points_gdf, footprint_gdf, resolved, joined_points_gdf,
                   gdf, col_name, cur, handles>>
    /\ UNCHANGED <<substVars, downloadVars>>

\* lines 168-170: gdf = pd.concat(new_gdf_list); return gdf
S3Finish ==
    /\ pc = "s3_loop"
    /\ pos = Len(gdf.rows)
    /\ IF acc = <<>> \/ ~SameCrs(acc)
       THEN Raise("ValueError")
       ELSE Return([concat(acc) EXCEPT !.refcols = gdf.refcols])
    /\ UNCHANGED <<call, input_points_gdf, footprint_gdf, resolved, joined_points_gdf,
                   gdf, pos, col_name, acc, cur, handles, hist>>
    /\ UNCHANGED <<substVars, downloadVars>>

(***************************************************************************)
(* ExtractTiledRaster, local branch (lines 108-126).                       *)
(***************************************************************************)
\* do_point_query(geom, ras_fn): rasterstats' point_query returns a list, here
\* of the one value nearest the point
do_point_query(x, crs, ras_fn) == [Pixel(ras_fn, x, crs) EXCEPT !.listed = TRUE]

\* lines 115-117: type(point.location) is float
LocalMissing ==
    /\ pc = "local_loop"
    /\ pos < Len(gdf.rows)
    /\ "location" \in gdf.refcols
    /\ ~IsStr(gdf.rows[pos + 1].location)
    /\ acc' = Append(acc, NaNCell)
    /\ hist' = Append(hist, Did(TRUE, FALSE, FALSE, FALSE, call.raster_dict.data_name))
    /\ pos' = pos + 1
    /\ UNCHANGED <<pc, call, input_points_gdf, footprint_gdf, resolved,
                   joined_points_gdf, gdf, col_name, cur, result, err, handles>>
    /\ UNCHANGED <<substVars, downloadVars>>

\* line 115 on a table without a location column
LocalNoColumn ==
    /\ pc = "local_loop"
    /\ pos < Len(gdf.rows)
    /\ "location" \notin gdf.refcols
    /\ Raise("AttributeError")
    /\ hist' = Append(hist, Did(~IsStr(gdf.rows[pos + 1].s3_path), FALSE, FALSE, TRUE, <<>>))
    /\ UNCHANGED <<call, input_points_gdf, footprint_gdf, resolved, joined_points_gdf,
                   gdf, pos, col_name, acc, cur, handles>>
    /\ UNCHANGED <<substVars, downloadVars>>

\* lines 119-121 up to rio.open inside get_transformation (line 56)
LocalOpen ==
    /\ pc = "local_loop"
    /\ pos < Len(gdf.rows)
    /\ "location" \in gdf.refcols
    /\ LET point == gdf.rows[pos + 1]
       IN /\ IsStr(point.location)
          /\ \E opens \in BOOLEAN :
                IF opens
                THEN /\ pc' = "local_opened"
                     /\ handles' = handles + 1
                     /\ cur' = [crs |-> gdf.crs,
                                ras_fn |-> path_join(DataDir, point.location),
                                row |-> point]
                     /\ UNCHANGED <<result, err, hist>>
                ELSE /\ Raise("RasterioIOError")
                     /\ hist' = Append(hist, Did(FALSE, FALSE, FALSE, TRUE, <<>>))
                     /\ UNCHANGED <<cur, handles>>
    /\ UNCHANGED <<call, input_points_gdf, footprint_gdf, resolved, joined_points_gdf,
                   gdf, pos, col_name, acc>>
    /\ UNCHANGED <<substVars, downloadVars>>

\* get_transformation lines 57-59 (ras.close()), then lines 121-123
LocalSample ==
    /\ pc = "local_opened"
    /\ handles' = handles - 1
    /\ cur' = NoFrame
    /\ \E samples \in BOOLEAN :
          IF samples
          THEN /\ acc' = Append(acc, do_point_query(cur.row.x, RasterCrs(cur.ras_fn),
                                                   cur.ras_fn))
               /\ hist' = Append(hist, Did(FALSE, TRUE, TRUE, FALSE,
                                           call.raster_dict.data_name))
               /\ pos' = pos + 1
               /\ pc' = "local_loop"
               /\ UNCHANGED <<result, err>>
          ELSE /\ Raise("RasterioIOError")
               /\ hist' = Append(hist, Did(FALSE, TRUE, FALSE, TRUE, <<>>))
               /\ UNCHANGED <<acc, pos>>
    /\ UNCHANGED <<call, input_points_gdf, footprint_gdf, resolved, joined_points_gdf,
                   gdf, col_name>>
    /\ UNCHANGED <<substVars, downloadVars>>

\* lines 125-126 and 170: gdf[ras_dict['data_name']] = value_list; return gdf
LocalFinish ==
    /\ pc = "local_loop"
    /\ pos = Len(gdf.rows)
    /\ Return(with_column(gdf, call.raster_dict.data_name, acc))
    /\ UNCHANGED <<call, input_points_gdf, footprint_gdf, resolved, joined_points_gdf,
                   gdf, pos, col_name, acc, cur, handles, hist>>
    /\ UNCHANGED <<substVars, downloadVars>>

(***************************************************************************)
(* ExtractUntiledRaster (lines 79-100).                                    *)
(***************************************************************************)
UntiledBody(ras_dict) ==
    IF ras_dict.location = "local"
    THEN \* line 87: ras = rio.open(ras_fn)
         \E opens \in BOOLEAN :
            IF opens
            THEN /\ pc' = "untiled_opened"
                 /\ handles' = handles + 1
                 /\ cur' = [NoFrame EXCEPT !.crs = input_points_gdf.crs,
                                           !.ras_fn = path_join(DataDir, GlobalFileName)]
                 /\ UNCHANGED <<result, err>>
            ELSE Raise("RasterioIOError") /\ UNCHANGED <<cur, handles>>
    ELSE IF ras_dict.location = "s3"
    THEN \* line 94: the module binds rio, never rasterio
         Raise("NameError") /\ UNCHANGED <<cur, handles>>
    ELSE \* neither branch: the function falls off its end
         Return(NoTable) /\ UNCHANGED <<cur, handles>>

ExtractUntiledRaster ==
    /\ pc = "idle"
    /\ resolved = NoTable
    /\ \E ras_dict \in RasterDicts :
          /\ call' = [op |-> "ExtractUntiledRaster", has_joined |-> FALSE,
                      tcc_year |-> <<>>, raster_dict |-> ras_dict]
          /\ UntiledBody(ras_dict)
    /\ UNCHANGED <<input_points_gdf, footprint_gdf, resolved, joined_points_gdf, gdf,
                   pos, col_name, acc, hist>>
    /\ UNCHANGED <<substVars, downloadVars>>

\* lines 88-90: reproject, sample every row, return; ras is never closed
UntiledSample ==
    /\ pc = "untiled_opened"
    /\ handles' = handles
    /\ cur' = NoFrame
    /\ LET new_gdf == reproject_gdf_to_rio_ds(input_points_gdf, RasterCrs(cur.ras_fn))
           values == [i \in 1..Len(new_gdf.rows) |->
                         Pixel(cur.ras_fn, new_gdf.rows[i].x, new_gdf.crs)]
       IN \E samples \in BOOLEAN :
             IF samples
             THEN Return(with_column(new_gdf, call.raster_dict.data_name, values))
             ELSE Raise("RasterioIOError")
    /\ UNCHANGED <<call, input_points_gdf, footprint_gdf, resolved, joined_points_gdf,
                   gdf, pos, col_name, acc, hist>>
    /\ UNCHANGED <<substVars, downloadVars>>

\* The interpreter finalising a dataset object nothing refers to any more:
\* when it does so is the runtime's choice, not the code's.
Finalize ==
    /\ pc \in {"returned", "raised"}
    /\ handles > 0
    /\ handles' = 0
    /\ UNCHANGED <<pc, call, input_points_gdf, footprint_gdf, resolved,
                   joined_points_gdf, gdf, pos, col_name, acc, cur, result, err, hist>>
    /\ UNCHANGED <<substVars, downloadVars>>

Next ==
    \/ Resolve
    \/ run_extract_tiled_covar_year
    \/ S3Open
    \/ S3Sample
    \/ S3Missing
    \/ S3Finish
    \/ LocalMissing
    \/ LocalNoColumn
    \/ LocalOpen
    \/ LocalSample
    \/ LocalFinish
    \/ ExtractUntiledRaster
    \/ UntiledSample
    \/ Finalize

Spec == Init /\ [][Next]_vars

(***************************************************************************)
(* Year-token substitution on its own: a template, and the substitution of *)
(* lines 144-145 applied to it again and again, each time to the string    *)
(* the last application gave.                                              *)
(***************************************************************************)
\* three plausible years, and one whose digits begin with the token's
SubstYears == {2019, 2020, 2021, 20201}

PathChunks == {<<"y">> \o str(TokenYear), <<"y">>, str(TokenYear), <<"/">>}

NameChunks == {<<"t", "c", "c">> \o str(TokenYear), <<"t", "c", "c">>, str(TokenYear),
               <<"_">>}

Templates(chunks) == {Flatten(cs) : cs \in SeqsUpTo(chunks, MaxChunks)}

ExtractIdle ==
    /\ pc = "idle"
    /\ call = NoCall
    /\ input_points_gdf = PointTable(<<>>)
    /\ footprint_gdf = [crs |-> PointCrs, refcols |-> {"s3_path"}, cols |-> {},
                        rows |-> <<>>]
    /\ resolved = NoTable
    /\ joined_points_gdf = NoTable
    /\ gdf = NoTable
    /\ pos = 0
    /\ col_name = <<>>
    /\ acc = <<>>
    /\ cur = NoFrame
    /\ result = NoTable
    /\ err = NoErr
    /\ handles = 0
    /\ hist = <<>>

SubstInit ==
    /\ ExtractIdle
    /\ DownloadIdle
    /\ token_kind \in {"path", "name"}
    /\ template \in Templates(IF token_kind = "path" THEN PathChunks ELSE NameChunks)
    /\ str_cur = template
    /\ years_applied = <<>>

\* line 144 applied to the current string
SubstitutePath ==
    /\ token_kind = "path"
    /\ Len(years_applied) < MaxSubst
    /\ \E tcc_year \in SubstYears :
          /\ str_cur' = SubstPath(str_cur, tcc_year)
          /\ years_applied' = Append(years_applied, tcc_year)
    /\ UNCHANGED <<template, token_kind>>
    /\ UNCHANGED <<extractVars, downloadVars>>

\* line 145 applied to the current string
SubstituteName ==
    /\ token_kind = "name"
    /\ Len(years_applied) < MaxSubst
    /\ \E tcc_year \in SubstYears :
          /\ str_cur' = SubstName(str_cur, tcc_year)
          /\ years_applied' = Append(years_applied, tcc_year)
    /\ UNCHANGED <<template, token_kind>>
    /\ UNCHANGED <<extractVars, downloadVars>>

SubstNext ==
    \/ SubstitutePath
    \/ SubstituteName

SpecSubst == SubstInit /\ [][SubstNext]_vars

(***************************************************************************)
(* C3.  Year-token substitution is idempotent for one year, and            *)
(* substituting Y and then Y' gives what substituting Y' directly on the   *)
(* template gives, for all years and templates: after any two              *)
(* substitutions the string is the template with the last year             *)
(* substituted.                                                            *)
(***************************************************************************)
C3_LastYearWins ==
    Len(years_applied) = 2 =>
        str_cur = Subst(token_kind, template, years_applied[2])

FourDigit(y) == Len(str(y)) = 4

\* the first year of the chain other than the token's own year, if any
RECURSIVE FirstOther(_)
FirstOther(ys) ==
    IF ys = <<>> THEN TokenYear
    ELSE IF Head(ys) # TokenYear THEN Head(ys) ELSE FirstOther(Tail(ys))

(***************************************************************************)
(* C3, amended.  For four-digit years, a chain of substitutions gives the  *)
(* template with the first year other than 2020 substituted: the same year *)
(* twice is the same as once, and once a year other than 2020 has been     *)
(* substituted the token is gone and a later year changes nothing.         *)
(***************************************************************************)
C3_FirstOtherYearWins ==
    (years_applied # <<>> /\ \A i \in 1..Len(years_applied) : FourDigit(years_applied[i]))
        => str_cur = Subst(token_kind, template, FirstOther(years_applied))

\* a template holding the token, substituted with 2019 and then with 2021
C3_Witness ==
    /\ years_applied = <<2019, 2021>>
    /\ Contains(template, str(TokenYear))
    /\ str_cur # template
    /\ str_cur = Subst(token_kind, template, 2019)

(***************************************************************************)
(* Vocabulary of the claims about the extraction drivers.                  *)
(***************************************************************************)
Finished == pc \in {"returned", "raised"}

Orchestrated == call.op = "run_extract_tiled_covar_year"

Location == call.raster_dict.location

\* ExtractTiledRaster has been entered on a table carrying the reference
\* column its storage class reads
TiledEntered ==
    /\ Orchestrated
    /\ gdf # NoTable
    /\ \/ Location = "s3" /\ "s3_path" \in gdf.refcols
       \/ Location = "local" /\ "location" \in gdf.refcols

RefOf(row) == IF Location = "s3" THEN row.s3_path ELSE row.location

Ids(t) == [i \in 1..Len(t.rows) |-> t.rows[i].id]

\* the cell the loop produced for the i-th row it handled
Produced(i) == IF Location = "s3" THEN acc[i].row.vals[hist[i].col] ELSE acc[i]

\* the raster file a resolved row is to be read from
ExpectedFile(row) ==
    IF Location = "s3"
    THEN SubSeq(row.s3_path, 1, 3) \o str(IF HasYear THEN call.tcc_year[1] ELSE TokenYear)
    ELSE DataDir \o <<"/">> \o row.location

ExpectedCell(row) ==
    IF RefOf(row) = NaN THEN NaNCell
    ELSE [nan |-> FALSE, file |-> ExpectedFile(row), x |-> row.x, in_frame |-> TRUE,
          listed |-> (Location = "local")]

(***************************************************************************)
(* C1.  After P has been resolved against F, the orchestrator called with  *)
(* has_joined=True returns a table with the row count and the row          *)
(* identifiers of P.                                                       *)
(***************************************************************************)
C1_JoinedCallReturnsRowsOfP ==
    (Orchestrated /\ call.has_joined /\ call.raster_dict # NoDict /\ Finished
       /\ Len(input_points_gdf.rows) > 0) =>
        /\ pc = "returned"
        /\ Ids(result) = Ids(input_points_gdf)

(***************************************************************************)
(* C2.  In ExtractTiledRaster, for both storage classes, a row whose tile  *)
(* reference is missing gets NaN as its value, is neither reprojected into *)
(* a tile's system nor sampled, raises nothing, and the loop goes on to    *)
(* the next row; in the returned table the row holds NaN under every value *)
(* column.                                                                 *)
(***************************************************************************)
C2_MissingRefGetsSentinel ==
    TiledEntered =>
        \A i \in 1..Len(hist) :
            RefOf(gdf.rows[i]) = NaN =>
                /\ hist[i].missing
                /\ ~hist[i].reprojected
                /\ ~hist[i].sampled
                /\ ~hist[i].failed
                /\ pos >= i
                /\ Len(acc) >= i
                /\ Produced(i) = NaNCell
                /\ pc = "returned" =>
                      \A c \in result.cols : result.rows[i].vals[c] = NaNCell

\* an s3 extraction has returned a table in which an unresolved row was
\* followed by a resolved row that was sampled
C2_Witness ==
    /\ TiledEntered
    /\ Location = "s3"
    /\ pc = "returned"
    /\ \E i \in 1..Len(hist) :
          /\ RefOf(gdf.rows[i]) = NaN
          /\ hist[i].missing
          /\ i < Len(hist)
          /\ hist[i + 1].sampled
          /\ result.rows[i].vals[hist[i].col] = NaNCell

(***************************************************************************)
(* C4.  One s3 ExtractTiledRaster call with a year given returns a table   *)
(* with exactly one value column, named by the year-substituted attribute  *)
(* name, and every row's value was written under that name.                *)
(***************************************************************************)
C4_OneYearSubstitutedColumn ==
    (TiledEntered /\ Location = "s3" /\ HasYear /\ pc = "returned") =>
        /\ result.cols = {SubstName(call.raster_dict.data_name, call.tcc_year[1])}
        /\ \A i \in 1..Len(hist) :
              hist[i].col = SubstName(call.raster_dict.data_name, call.tcc_year[1])

(***************************************************************************)
(* C5.  The table the tiled pipeline returns (has_joined=False) is in the  *)
(* coordinate reference system of the original input point set.            *)
(***************************************************************************)
C5_ResultInInputCrs ==
    (TiledEntered /\ ~call.has_joined /\ pc = "returned"
       /\ \E i \in 1..Len(hist) : hist[i].sampled) =>
        result.crs = input_points_gdf.crs

(***************************************************************************)
(* C6.  With a storage location class that is neither local nor s3, the    *)
(* drivers end in a configuration error and return no table.               *)
(***************************************************************************)
C6_UnknownLocationIsFatal ==
    (call.op # "none" /\ call.raster_dict # NoDict /\ ~call.has_joined
       /\ "s3_path" \in footprint_gdf.refcols /\ Len(input_points_gdf.rows) > 0
       /\ Location \notin {"local", "s3"} /\ Finished) =>
        /\ pc = "raised"
        /\ hist = <<>>
        /\ result = NoTable

(***************************************************************************)
(* C7.  In ExtractTiledRaster a failure while processing one row does not  *)
(* abort the run: the call does not end in that row's exception.           *)
(***************************************************************************)
C7_FailureIsolated ==
    TiledEntered =>
        \A i \in 1..Len(hist) : hist[i].failed => pc # "raised"

(***************************************************************************)
(* C8.  The table ExtractTiledRaster returns has, for both storage         *)
(* classes, exactly one row per input row, in the input's order, and row i *)
(* holds the value sampled for input row i, or NaN when row i has no tile. *)
(***************************************************************************)
C8_RowsInOrderWithOwnValues ==
    (TiledEntered /\ pc = "returned") =>
        /\ Len(result.rows) = Len(gdf.rows)
        /\ Len(hist) = Len(gdf.rows)
        /\ \A i \in 1..Len(gdf.rows) :
              /\ result.rows[i].id = gdf.rows[i].id
              /\ result.rows[i].x = gdf.rows[i].x
              /\ RefOf(result.rows[i]) = RefOf(gdf.rows[i])
              /\ result.rows[i].vals[hist[i].col] = ExpectedCell(gdf.rows[i])

\* a returned table of at least three rows, one point on the boundary A and
\* B share joined to both, resolved and unresolved rows mixed
C8_Witness ==
    /\ TiledEntered
    /\ pc = "returned"
    /\ Len(result.rows) >= 3
    /\ \E i, j \in 1..Len(gdf.rows) :
          /\ i < j
          /\ gdf.rows[i].index # i - 1 \/ gdf.rows[i].id = gdf.rows[j].id
          /\ RefOf(gdf.rows[i]) # RefOf(gdf.rows[j])
    /\ \E i \in 1..Len(gdf.rows) : RefOf(gdf.rows[i]) = NaN
    /\ \E i \in 1..Len(gdf.rows) : ~result.rows[i].vals[hist[i].col].nan

\* the footprint, if any, that alone covers ground location x
CoveredBy(x) ==
    {k \in 1..Len(footprint_gdf.rows) : x \in footprint_gdf.rows[k].geom}

NonOverlapping ==
    \A k, l \in 1..Len(footprint_gdf.rows) :
        k # l => Interior(footprint_gdf.rows[k]) \cap footprint_gdf.rows[l].geom = {}

(***************************************************************************)
(* C9.  clip_and_join, on non-overlapping footprints, returns every input  *)
(* point exactly once, with the tile reference of the footprint covering   *)
(* it or a null reference when none does, points on a shared boundary      *)
(* included.                                                               *)
(***************************************************************************)
C9_EveryPointExactlyOnce ==
    (resolved # NoTable /\ NonOverlapping) =>
        /\ Ids(resolved) = Ids(input_points_gdf)
        /\ \A i \in 1..Len(input_points_gdf.rows) :
              IF CoveredBy(input_points_gdf.rows[i].x) = {}
              THEN resolved.rows[i] = input_points_gdf.rows[i]
              ELSE \E k \in CoveredBy(input_points_gdf.rows[i].x) :
                      resolved.rows[i] = JoinedAs(input_points_gdf.rows[i],
                                                 footprint_gdf.rows[k],
                                                 footprint_gdf.refcols)

(***************************************************************************)
(* C10.  When an extraction call has returned or raised, no raster handle  *)
(* or read session it opened is still open.                                *)
(***************************************************************************)
C10_NoHandleOpenAfterCall == Finished => handles = 0

(***************************************************************************)
(* The tile download run of lib/download_gee_tiles.py.                     *)
(*                                                                         *)
(* What the outside world does (the S3 transfer, Earth Engine, the tile    *)
(* index file, the image download, os.remove) is chosen by the             *)
(* environment among the outcomes the code distinguishes.                  *)
(***************************************************************************)
MaxTiles == 2

FileNumberWidth == 7

S3Prefix == <<"s", "3", ":", "/", "/">>

\* str.split(sep, 1)
split1(s, sep) ==
    IF \E i \in 1..Len(s) : s[i] = sep
    THEN LET i == CHOOSE k \in 1..Len(s) :
                      s[k] = sep /\ \A j \in 1..(k - 1) : s[j] # sep
         IN <<SubSeq(s, 1, i - 1), SubSeq(s, i + 1, Len(s))>>
    ELSE <<s>>

\* the format specification 07 applied to the decimal digits of a tile number
RECURSIVE zfill(_, _)
zfill(s, width) ==
    IF Len(s) >= width THEN s ELSE zfill(<<"0">> \o s, width)

Args == [outdir |-> <<"o">>, asset_type |-> <<"a">>, year |-> 2020, scale |-> 30]

output_filename(focal_tile) ==
    Args.outdir \o <<"/">> \o Args.asset_type \o <<"_">> \o str(Args.year)
        \o <<"_">> \o str(Args.scale) \o <<"m", "_">>
        \o zfill(str(focal_tile), FileNumberWidth) \o <<".", "t", "i", "f">>

\* the key files on the disk before the run, and the name tempfile hands out
LocalKeyFiles == {<<"k">>}

TempFilePath == <<"t">>

KeyPathArgs == {<<"k">>, <<"m">>, S3Prefix \o <<"b", "/", "k">>, S3Prefix \o <<"b">>}

\* tile_num column of the index file, and the numbers a tile list may name
CsvTiles == <<1, 12>>

TileNums == {1, 2, 12}

InIndex(focal_tile) == \E i \in 1..Len(tiles_index) : tiles_index[i] = focal_tile

isin(index, numbers) ==
    LET keep(t) == \E i \in 1..Len(numbers) : numbers[i] = t
    IN SelectSeq(index, keep)

keyVars == <<gee_key_path, key_files, local_key_path, is_temporary, s3_result,
             key_error>>

loopVars == <<tile_list, tiles_index, tile_numbers, tile_i, successful, failed,
              files, called, returned>>

DownloadInit ==
    /\ ExtractIdle
    /\ SubstIdle
    /\ main_pc = "start"
    /\ gee_key_path \in KeyPathArgs
    /\ key_files = LocalKeyFiles
    /\ local_key_path = NoPath
    /\ is_temporary = FALSE
    /\ s3_result = "uncalled"
    /\ key_error = "none"
    /\ tile_list \in SeqsUpTo(TileNums, MaxTiles)
    /\ tiles_index = <<>>
    /\ tile_numbers = <<>>
    /\ tile_i = 0
    /\ successful = 0
    /\ failed = 0
    /\ files \in SUBSET {output_filename(t) : t \in TileNums}
    /\ called = <<>>
    /\ returned = <<>>
    /\ exit_status = "none"

\* sys.exit(1) of line 298, before main's try
ExitBeforeTry ==
    /\ main_pc' = "ended"
    /\ exit_status' = "exit1"

\* main's try block is left: the finally block runs next
Leave(status) ==
    /\ main_pc' = "finally"
    /\ exit_status' = status

\* get_gee_key_path on a local path that exists
LocalKeyFound ==
    /\ main_pc = "start"
    /\ ~StartsWith(gee_key_path, S3Prefix)
    /\ gee_key_path \in key_files
    /\ local_key_path' = gee_key_path
    /\ is_temporary' = FALSE
    /\ main_pc' = "key_ready"
    /\ UNCHANGED <<gee_key_path, key_files, s3_result, key_error, exit_status>>
    /\ UNCHANGED <<loopVars, extractVars, substVars>>

\* get_gee_key_path on a local path that does not exist; main exits
LocalKeyMissing ==
    /\ main_pc = "start"
    /\ ~StartsWith(gee_key_path, S3Prefix)
    /\ gee_key_path \notin key_files
    /\ ExitBeforeTry
    /\ UNCHANGED <<keyVars, loopVars, extractVars, substVars>>

\* download_key_from_s3: the path has no object key and the ValueError is caught
S3PathInvalid ==
    /\ main_pc = "start"
    /\ StartsWith(gee_key_path, S3Prefix)
    /\ Len(split1(SubSeq(gee_key_path, Len(S3Prefix) + 1, Len(gee_key_path)), "/")) # 2
    /\ s3_result' = "None"
    /\ key_error' = "ValueError"
    /\ ExitBeforeTry
    /\ UNCHANGED <<gee_key_path, key_files, local_key_path, is_temporary>>
    /\ UNCHANGED <<loopVars, extractVars, substVars>>

\* download_key_from_s3 up to the creation of the temporary file
S3CreateTemp ==
    /\ main_pc = "start"
    /\ StartsWith(gee_key_path, S3Prefix)
    /\ Len(split1(SubSeq(gee_key_path, Len(S3Prefix) + 1, Len(gee_key_path)), "/")) = 2
    /\ key_files' = key_files \cup {TempFilePath}
    /\ main_pc' = "s3_download"
    /\ UNCHANGED <<gee_key_path, local_key_path, is_temporary, s3_result, key_error,
                   exit_status>>
    /\ UNCHANGED <<loopVars, extractVars, substVars>>

\* download_file succeeds: the temporary path is returned and main goes on
S3DownloadOk ==
    /\ main_pc = "s3_download"
    /\ s3_result' = "path"
    /\ local_key_path' = TempFilePath
    /\ is_temporary' = TRUE
    /\ main_pc' = "key_ready"
    /\ UNCHANGED <<gee_key_path, key_files, key_error, exit_status>>
    /\ UNCHANGED <<loopVars, extractVars, substVars>>

\* download_file raises ClientError: the handler tries to remove the file
S3ClientError ==
    /\ main_pc = "s3_download"
    /\ \E removed \in BOOLEAN :
          key_files' = IF removed THEN key_files \ {TempFilePath} ELSE key_files
    /\ s3_result' = "None"
    /\ key_error' = "ClientError"
    /\ ExitBeforeTry
    /\ UNCHANGED <<gee_key_path, local_key_path, is_temporary>>
    /\ UNCHANGED <<loopVars, extractVars, substVars>>

\* download_file raises something else: the outer handlers return None
S3OtherError ==
    /\ main_pc = "s3_download"
    /\ \E e \in {"NoCredentialsError", "Exception"} : key_error' = e
    /\ s3_result' = "None"
    /\ ExitBeforeTry
    /\ UNCHANGED <<gee_key_path, key_files, local_key_path, is_temporary>>
    /\ UNCHANGED <<loopVars, extractVars, substVars>>

\* main lines 303-304
initialize_ee ==
    /\ main_pc = "key_ready"
    /\ \E ok \in BOOLEAN :
          IF ok THEN main_pc' = "ee_ready" /\ UNCHANGED exit_status
                ELSE Leave("exit1")
    /\ UNCHANGED <<keyVars, loopVars, extractVars, substVars>>

\* main line 307
makedirs ==
    /\ main_pc = "ee_ready"
    /\ \E ok \in BOOLEAN :
          IF ok THEN main_pc' = "dir_ready" /\ UNCHANGED exit_status
                ELSE Leave("exception")
    /\ UNCHANGED <<keyVars, loopVars, extractVars, substVars>>

\* main lines 310-324
load_tiles_index ==
    /\ main_pc = "dir_ready"
    /\ \E ok \in BOOLEAN :
          IF ok
          THEN /\ tiles_index' = IF tile_list # <<>> THEN isin(CsvTiles, tile_list)
                                                     ELSE CsvTiles
               /\ tile_numbers' = IF tile_list # <<>> THEN tile_list ELSE tiles_index'
               /\ successful' = 0
               /\ failed' = 0
               /\ main_pc' = "loop"
               /\ UNCHANGED exit_status
          ELSE /\ Leave("exit1")
               /\ UNCHANGED <<tiles_index, tile_numbers, successful, failed>>
    /\ UNCHANGED <<tile_list, tile_i, files, called, returned>>
    /\ UNCHANGED <<keyVars, extractVars, substVars>>

\* the loop gives up at the first failed tile
LoopBreakOnFailure(success) == IF success THEN "loop" ELSE "finally"

\* what main's loop does after a tile
LoopContinue(success) == "loop"

\* process_tile returns, having said why, and main counts the tile
TileReturn(success, existed, said, fs) ==
    /\ files' = fs
    /\ returned' = Append(returned,
                          [focal_tile |-> tile_numbers[tile_i + 1], existed |-> existed,
                           success |-> success, said |-> said,
                           exists |-> output_filename(tile_numbers[tile_i + 1]) \in fs])
    /\ successful' = IF success THEN successful + 1 ELSE successful
    /\ failed' = IF success THEN failed ELSE failed + 1
    /\ tile_i' = tile_i + 1
    /\ main_pc' = LoopContinue(success)

Calling ==
    /\ main_pc = "loop"
    /\ tile_i < Len(tile_numbers)
    /\ called' = Append(called, tile_numbers[tile_i + 1])

\* lines 217-219
ProcessTileSkip ==
    /\ Calling
    /\ output_filename(tile_numbers[tile_i + 1]) \in files
    /\ TileReturn(TRUE, TRUE, "skipping", files)
    /\ UNCHANGED <<tile_list, tiles_index, tile_numbers, exit_status>>
    /\ UNCHANGED <<keyVars, extractVars, substVars>>

\* lines 225-228
ProcessTileNotFound ==
    /\ Calling
    /\ output_filename(tile_numbers[tile_i + 1]) \notin files
    /\ ~InIndex(tile_numbers[tile_i + 1])
    /\ TileReturn(FALSE, FALSE, "not found in tiles index", files)
    /\ UNCHANGED <<tile_list, tiles_index, tile_numbers, exit_status>>
    /\ UNCHANGED <<keyVars, extractVars, substVars>>

\* lines 230-250: the geometry or the asset cannot be had
ProcessTileAssetError ==
    /\ Calling
    /\ output_filename(tile_numbers[tile_i + 1]) \notin files
    /\ InIndex(tile_numbers[tile_i + 1])
    /\ TileReturn(FALSE, FALSE, "error accessing asset", files)
    /\ UNCHANGED <<tile_list, tiles_index, tile_numbers, exit_status>>
    /\ UNCHANGED <<keyVars, extractVars, substVars>>

\* lines 230-254: the download begins
ProcessTileBegin ==
    /\ Calling
    /\ output_filename(tile_numbers[tile_i + 1]) \notin files
    /\ InIndex(tile_numbers[tile_i + 1])
    /\ main_pc' = "download"
    /\ UNCHANGED <<tile_list, tiles_index, tile_numbers, tile_i, successful, failed,
                   files, returned, exit_status>>
    /\ UNCHANGED <<keyVars, extractVars, substVars>>

\* lines 256-269: the download returns and the file is there
DownloadOk ==
    /\ main_pc = "download"
    /\ TileReturn(TRUE, FALSE, "downloaded",
                  files \cup {output_filename(tile_numbers[tile_i + 1])})
    /\ UNCHANGED <<tile_list, tiles_index, tile_numbers, called, exit_status>>
    /\ UNCHANGED <<keyVars, extractVars, substVars>>

\* lines 256-272: the download returns and no file is there
DownloadNoFile ==
    /\ main_pc = "download"
    /\ TileReturn(FALSE, FALSE, "file not found", files)
    /\ UNCHANGED <<tile_list, tiles_index, tile_numbers, called, exit_status>>
    /\ UNCHANGED <<keyVars, extractVars, substVars>>

\* lines 256-275: the download raises, with or without a file written so far
DownloadRaises ==
    /\ main_pc = "download"
    /\ \E partial \in BOOLEAN :
          files' = IF partial
                   THEN files \cup {output_filename(tile_numbers[tile_i + 1])}
                   ELSE files
    /\ main_pc' = "except"
    /\ UNCHANGED <<tile_list, tiles_index, tile_numbers, tile_i, successful, failed,
                   called, returned, exit_status>>
    /\ UNCHANGED <<keyVars, extractVars, substVars>>

\* lines 276-283: the handler removes the partial file if os.remove lets it
RemovePartial ==
    /\ main_pc = "except"
    /\ \E removed \in BOOLEAN :
          TileReturn(FALSE, FALSE, "error downloading",
                     IF removed THEN files \ {output_filename(tile_numbers[tile_i + 1])}
                                ELSE files)
    /\ UNCHANGED <<tile_list, tiles_index, tile_numbers, called, exit_status>>
    /\ UNCHANGED <<keyVars, extractVars, substVars>>

\* lines 343-346: the loop is over
LoopEnd ==
    /\ main_pc = "loop"
    /\ tile_i = Len(tile_numbers)
    /\ Leave("ok")
    /\ UNCHANGED <<keyVars, loopVars, extractVars, substVars>>

\* lines 348-355
Finally ==
    /\ main_pc = "finally"
    /\ IF is_temporary /\ local_key_path # NoPath /\ local_key_path \in key_files
       THEN \E removed \in BOOLEAN :
               key_files' = IF removed THEN key_files \ {local_key_path} ELSE key_files
       ELSE UNCHANGED key_files
    /\ main_pc' = "ended"
    /\ UNCHANGED <<gee_key_path, local_key_path, is_temporary, s3_result, key_error,
                   exit_status>>
    /\ UNCHANGED <<loopVars, extractVars, substVars>>

DownloadNext ==
    \/ LocalKeyFound
    \/ LocalKeyMissing
    \/ S3PathInvalid
    \/ S3CreateTemp
    \/ S3DownloadOk
    \/ S3OtherError
    \/ S3ClientError
    \/ initialize_ee
    \/ makedirs
    \/ load_tiles_index
    \/ ProcessTileSkip
    \/ ProcessTileNotFound
    \/ ProcessTileAssetError
    \/ ProcessTileBegin
    \/ DownloadOk
    \/ DownloadNoFile
    \/ DownloadRaises
    \/ RemovePartial
    \/ LoopEnd
    \/ Finally

SpecDownload == DownloadInit /\ [][DownloadNext]_vars

(***************************************************************************)
(* C11.  Whenever process_tile returns False for a tile whose output file  *)
(* did not exist when the call started, no output file for that tile       *)
(* exists when the call returns.                                           *)
(***************************************************************************)
C11_FailedTileLeavesNoFile ==
    \A i \in 1..Len(returned) :
        (~returned[i].success /\ ~returned[i].existed) => ~returned[i].exists

(***************************************************************************)
(* C12.  A credential file fetched from remote storage into a local        *)
(* temporary file is removed on every exit path: once download_key_from_s3 *)
(* has returned None, and once main has ended, for whatever reason, no     *)
(* temporary key file created by the run remains on the disk.              *)
(***************************************************************************)
C12_NoTemporaryKeyRemains ==
    (s3_result = "None" \/ main_pc = "ended") => TempFilePath \notin key_files

(***************************************************************************)
(* C13.  The failure of one tile never stops the others: main calls        *)
(* process_tile exactly once for every requested tile, in list order,      *)
(* whatever the outcome of earlier tiles, and when the loop ends           *)
(* successful + failed equals the number of requested tiles.               *)
(*                                                                         *)
(* As an invariant: the calls made so far are the first entries of the     *)
(* tile list, every return answers the call at its position and is         *)
(* counted once, and once main is past a loop over a tile list, every      *)
(* entry of the list has been called and counted.                          *)
(***************************************************************************)
IsPrefix(p, q) == Len(p) <= Len(q) /\ \A i \in 1..Len(p) : p[i] = q[i]

C13_EveryTileProcessedOnce ==
    /\ IsPrefix(called, tile_numbers)
    /\ Len(returned) <= Len(called)
    /\ \A i \in 1..Len(returned) : returned[i].focal_tile = called[i]
    /\ successful + failed = Len(returned)
    /\ successful = Cardinality({i \in 1..Len(returned) : returned[i].success})
    /\ (main_pc \in {"finally", "ended"} /\ tile_numbers # <<>>) =>
          /\ called = tile_numbers
          /\ successful + failed = Len(tile_numbers)

\* a run that ended after a tile whose download failed and a later tile that
\* was downloaded
C13_Witness ==
    /\ main_pc = "ended"
    /\ Len(returned) = 2
    /\ returned[1].said = "error downloading"
    /\ returned[2].said = "downloaded"
    /\ failed > 0
    /\ successful > 0

====
